---- MODULE Spec2Model ----
(***************************************************************************)
(* Comparison training, story counting and interactive-learning dispatch   *)
(* of rasa/core/train.py.                                                  *)
(*                                                                         *)
(* Text is a sequence of one-character strings, so that str(), string     *)
(* concatenation and os.path.join are computed character by character.    *)
(* A float is a 53-bit significand with a binary exponent, so that         *)
(* (x / 100.0) * no_stories and round() are computed as IEEE-754 doubles.  *)
(***************************************************************************)
EXTENDS Integers, Sequences, FiniteSets, TLC

\* ------------------------------------------------------------- bounds
MaxRuns == 2
MaxPcts == 2
MaxConfigs == 2
MaxStories == 6
MaxInvocations == 2

\* ------------------------------------------------------------- text
Digits == <<"0", "1", "2", "3", "4", "5", "6", "7", "8", "9">>

Sep == "/"

\* str(n) of a Python int: plain decimal, a minus sign for negatives
RECURSIVE str(_)
str(n) ==
    IF n < 0 THEN <<"-">> \o str(0 - n)
    ELSE IF n < 10 THEN <<Digits[n + 1]>>
    ELSE str(n \div 10) \o <<Digits[(n % 10) + 1]>>

\* one step of posixpath.join: the loop body for one further component b
JoinStep(path, b) ==
    IF b # <<>> /\ b[1] = Sep THEN b
    ELSE IF path = <<>> \/ path[Len(path)] = Sep THEN path \o b
    ELSE path \o <<Sep>> \o b

\* os.path.join(a, b, c)
os_path_join(a, b, c) == JoinStep(JoinStep(a, b), c)

\* a variant that names the run directory by the loop variable: 'run_' + str(r)
RunDirFromZero(r) == <<"r", "u", "n", "_">> \o str(r)

\* 'run_' + str(r + 1)
RunDir(r) == <<"r", "u", "n", "_">> \o str(r + 1)

\* policy_name + str(current_round)
ModelDir(policy_name, current_round) == policy_name \o str(current_round)

\* the output directory of one cell
OutputPath(output_path, r, policy_name, current_round) ==
    os_path_join(output_path, RunDir(r), ModelDir(policy_name, current_round))

\* exclusion_percentages.index(i) + 1: the first position holding a value equal to i
RECURSIVE ListIndex(_, _, _)
ListIndex(xs, v, k) ==
    IF xs[k] = v THEN k ELSE ListIndex(xs, v, k + 1)

\* a variant that numbers the rounds from the last percentage backwards
CurrentRoundFromLast(exclusion_percentages, i) ==
    Len(exclusion_percentages) + 1 - ListIndex(exclusion_percentages, i, 1)

CurrentRound(exclusion_percentages, i) == ListIndex(exclusion_percentages, i, 1)

\* ------------------------------------------------------------- floats
\* A double is [m |-> bits, e |-> k]: the 53 significand bits, most significant
\* first, and the exponent of the last bit (value = m * 2^e); zero is m = <<>>.
MantissaBits == 53

FloatZero == [m |-> <<>>, e |-> 0]

\* The operations on bits and doubles are functions, so that every step works
\* on values.
Bits == Seq({0, 1})

Doubles == [m : Bits, e : Int]

Binary[n \in Nat] == IF n = 0 THEN <<>> ELSE Binary[n \div 2] \o <<n % 2>>

BitsValue[bits \in Bits] ==
    IF bits = <<>> THEN 0
    ELSE 2 * BitsValue[SubSeq(bits, 1, Len(bits) - 1)] + bits[Len(bits)]

\* bits + 1, one bit longer when the carry runs out of the top
Increment[bits \in Bits] ==
    IF bits = <<>> THEN <<1>>
    ELSE IF bits[Len(bits)] = 0 THEN SubSeq(bits, 1, Len(bits) - 1) \o <<1>>
    ELSE Increment[SubSeq(bits, 1, Len(bits) - 1)] \o <<0>>

\* round to nearest, ties to even: bits are the kept significand, up says the
\* discarded part is above one half, tie that it is exactly one half
RoundNearestEven[bits \in Bits, e \in Int, up \in BOOLEAN, tie \in BOOLEAN] ==
    IF up \/ (tie /\ bits[Len(bits)] = 1)
    THEN LET inc == Increment[bits] IN
         IF Len(inc) > Len(bits)
         THEN [m |-> SubSeq(inc, 1, Len(bits)), e |-> e + 1]
         ELSE [m |-> inc, e |-> e]
    ELSE [m |-> bits, e |-> e]

\* long division by 100: the significand bits of the quotient, one per step
DivStep[bits \in Bits, rem \in Nat, e \in Int] ==
    IF Len(bits) = MantissaBits THEN [m |-> bits, rem |-> rem, e |-> e]
    ELSE LET b == IF 2 * rem >= 100 THEN 1 ELSE 0 IN
         DivStep[IF bits = <<>> /\ b = 0 THEN <<>> ELSE Append(bits, b),
                 2 * rem - 100 * b, e - 1]

\* x / 100.0 for an int x >= 0, correctly rounded
FloatDiv100[x \in Nat] ==
    IF x = 0 THEN FloatZero
    ELSE LET q == DivStep[Binary[x \div 100], x % 100, 0] IN
         RoundNearestEven[q.m, q.e, 2 * q.rem > 100, 2 * q.rem = 100]

\* the exact product of a significand and an int, as bits
MulBits[bits \in Bits, n \in Nat, carry \in Nat] ==
    IF bits = <<>> THEN Binary[carry]
    ELSE LET v == bits[Len(bits)] * n + carry
             high == SubSeq(bits, 1, Len(bits) - 1)
         IN  MulBits[high, n, v \div 2] \o <<v % 2>>

AnyOne(bits) == \E k \in 1..Len(bits) : bits[k] = 1

\* f * n for a double f and an int n >= 0, correctly rounded
FloatMulInt[f \in Doubles, n \in Nat] ==
    IF f.m = <<>> \/ n = 0 THEN FloatZero
    ELSE LET p == MulBits[f.m, n, 0]
             drop == Len(p) - MantissaBits
             rest == SubSeq(p, MantissaBits + 1, Len(p))
         IN  IF drop = 0 THEN [m |-> p, e |-> f.e]
             ELSE RoundNearestEven[SubSeq(p, 1, MantissaBits), f.e + drop,
                                   rest[1] = 1 /\ AnyOne(Tail(rest)),
                                   rest[1] = 1 /\ ~AnyOne(Tail(rest))]

\* round(f) of a double f >= 0 below 2^31: nearest int, ties to the even int
PyRound[f \in Doubles] ==
    IF f.m = <<>> THEN 0
    ELSE IF f.e >= 0 THEN BitsValue[f.m \o [k \in 1..f.e |-> 0]]
    ELSE IF 0 - f.e > MantissaBits THEN 0
    ELSE LET cut  == MantissaBits + f.e
             int  == BitsValue[SubSeq(f.m, 1, cut)]
             frac == SubSeq(f.m, cut + 1, MantissaBits)
             up   == frac[1] = 1 /\ AnyOne(Tail(frac))
             tie  == frac[1] = 1 /\ ~AnyOne(Tail(frac))
         IN  IF up \/ (tie /\ int % 2 = 1) THEN int + 1 ELSE int

\* round((x / 100.0) * no_stories), as a function of the two ints
Excluded[x \in Nat, no_stories \in Nat] ==
    PyRound[FloatMulInt[FloatDiv100[x], no_stories]]

\* the nearest integer to num / den, an exact half going to the even one
RoundHalfEven(num, den) ==
    LET q == num \div den
        rest == num % den
    IN  IF 2 * rest < den THEN q
        ELSE IF 2 * rest > den THEN q + 1
        ELSE IF q % 2 = 0 THEN q ELSE q + 1

\* a variant that rounds the remaining count: round(no_stories - (x/100)*no_stories)
StoriesAtRoundingRemaining(x, no_stories) ==
    RoundHalfEven(100 * no_stories - x * no_stories, 100)

\* no_stories - round((x / 100.0) * no_stories)
StoriesAt(x, no_stories) == no_stories - Excluded[x, no_stories]

\* [no_stories - round((x / 100.0) * no_stories) for x in percentages]
StoryRange(percentages, no_stories) ==
    [k \in 1..Len(percentages) |-> StoriesAt(percentages[k], no_stories)]

\* ------------------------------------------------------------- inputs
SeqsUpTo(S, n) == UNION {[1..k -> S] : k \in 0..n}

\* class names of policies: type(policy).__name__
MemoizationPolicy ==
    <<"M", "e", "m", "o", "i", "z", "a", "t", "i", "o", "n",
      "P", "o", "l", "i", "c", "y">>

\* a custom policy class whose name ends in a digit
MemoizationPolicy1 == MemoizationPolicy \o <<"1">>

Ensemble == <<"E", "n", "s", "e", "m", "b", "l", "e">>

\* the policy configuration files the generated --config lists draw from
ConfigRefs == {"memo.yml", "memo1.yml", "empty.yml", "two.yml"}

\* config.load(policy_config): the policies of a configuration file, each
\* policy object given by its class name
ConfigLoad(policy_config) ==
    CASE policy_config = "ensemble.yml" -> <<Ensemble>>
      [] policy_config = "memo.yml"     -> <<MemoizationPolicy>>
      [] policy_config = "memo1.yml"    -> <<MemoizationPolicy1>>
      [] policy_config = "empty.yml"    -> <<>>
      [] policy_config = "two.yml"      -> <<MemoizationPolicy, Ensemble>>

\* values of --percentages, and one list long enough for two-digit rounds
PctValues == {10, 20}

LongPercentages == <<0, 5, 10, 20, 25, 30, 40, 50, 60, 70, 90>>

PctLists == SeqsUpTo(PctValues, MaxPcts) \cup {LongPercentages}

ConfigLists == SeqsUpTo(ConfigRefs, MaxConfigs) \cup {<<"ensemble.yml">>}

\* values of --out
OutputRoots == {<<>>, <<"o", "u", "t">>}

\* values of --runs; range(runs) is empty for runs <= 0
RunCounts == (0 - 1)..MaxRuns

\* the additional arguments handed on as kwargs: a dict, as a set of
\* <<key, value>> pairs
NoKwargs == {}

AugmentationKwargs == {<<"augmentation_factor", 20>>}

\* the command line of `compare` with --dump_stories and an augmentation factor
DumpingCompareArgs ==
    [mode : {"compare"}, out : {<<>>}, percentages : {<<10, 10>>, <<10, 20>>},
     config : {<<"memo.yml", "memo1.yml">>}, runs : {2},
     domain : {"domain.yml"}, stories : {"stories.md"},
     dump_stories : {TRUE}, kwargs : {AugmentationKwargs},
     core : {FALSE}, finetune : {FALSE}, skip_visualization : {FALSE}]

\* the command line of `compare`
CompareArgs ==
    [mode : {"compare"}, out : OutputRoots, percentages : PctLists,
     config : ConfigLists, runs : RunCounts,
     domain : {"domain.yml"}, stories : {"stories.md"},
     dump_stories : {FALSE}, kwargs : {NoKwargs},
     core : {FALSE}, finetune : {FALSE}, skip_visualization : {FALSE}]
        \cup DumpingCompareArgs

\* the command line of `interactive`
InteractiveArgs ==
    [mode : {"interactive"}, out : {<<>>}, percentages : {<<>>},
     config : {<<>>}, runs : {1},
     domain : {"domain.yml"}, stories : {"stories.md"},
     dump_stories : {FALSE}, kwargs : {NoKwargs},
     core : BOOLEAN, finetune : BOOLEAN, skip_visualization : BOOLEAN]

\* number of stories in the story file of the grid runs
GridCorpus == {5}

\* ------------------------------------------------------------- state
VARIABLES
    args,        \* cmdline_args of the process
    corpus,      \* len(stories) that get_no_of_stories finds in the story file
    pc,          \* "ready", "cell", "train", "count", "done", "error"
    invocation,  \* how many times the command has been started
    cell,        \* loop variables of train_comparison_models: r, pos, ci
    calls,       \* the train() calls of this invocation, in order
    logs,        \* the "Starting to train" messages of this invocation
    trace,       \* the steps of this invocation, in order
    err,         \* the exception that ended this invocation, "" for none
    written,     \* how often this invocation has dumped num_stories.json
    fs,          \* num_stories.json under --out: exists, content
    icalls       \* the run_interactive_learning calls of this invocation

vars == <<args, corpus, pc, invocation, cell, calls, logs, trace, err,
          written, fs, icalls>>

NoCell == [r |-> 0, pos |-> 0, ci |-> 0]

NoFile == [exists |-> FALSE, content |-> <<>>]

Fresh ==
    /\ pc = "ready"
    /\ invocation = 0
    /\ cell = NoCell
    /\ calls = <<>>
    /\ logs = <<>>
    /\ trace = <<>>
    /\ err = ""
    /\ written = 0
    /\ fs = NoFile
    /\ icalls = <<>>

Init ==
    /\ args \in CompareArgs \cup InteractiveArgs
    /\ corpus \in GridCorpus
    /\ Fresh

\* ------------------------------------------------------------- the grid
\* a variant that enters the loop body whatever the number of runs
GridHasCellsIgnoringRuns(a) ==
    Len(a.percentages) >= 1 /\ Len(a.config) >= 1

\* the three nested for loops have a body to run at all
GridHasCells(a) ==
    a.runs >= 1 /\ Len(a.percentages) >= 1 /\ Len(a.config) >= 1

FirstCell == [r |-> 0, pos |-> 1, ci |-> 1]

\* a variant whose outer loop is range(runs - 1)
NextCellShortOfOneRun(a, c) ==
    IF c.ci < Len(a.config) THEN [c EXCEPT !.ci = c.ci + 1]
    ELSE IF c.pos < Len(a.percentages) THEN [c EXCEPT !.pos = c.pos + 1, !.ci = 1]
    ELSE IF c.r + 1 < a.runs - 1 THEN [r |-> c.r + 1, pos |-> 1, ci |-> 1]
    ELSE [r |-> 0, pos |-> 0, ci |-> 0]

\* a variant whose loop over the percentages is nested inside the loop over
\* the configurations
NextCellPercentagesInnermost(a, c) ==
    IF c.pos < Len(a.percentages) THEN [c EXCEPT !.pos = c.pos + 1]
    ELSE IF c.ci < Len(a.config) THEN [c EXCEPT !.ci = c.ci + 1, !.pos = 1]
    ELSE IF c.r + 1 < a.runs THEN [r |-> c.r + 1, pos |-> 1, ci |-> 1]
    ELSE [r |-> 0, pos |-> 0, ci |-> 0]

\* the loop variables of the next iteration of the innermost body; NoCell
\* when the loops are exhausted
NextCell(a, c) ==
    IF c.ci < Len(a.config) THEN [c EXCEPT !.ci = c.ci + 1]
    ELSE IF c.pos < Len(a.percentages) THEN [c EXCEPT !.pos = c.pos + 1, !.ci = 1]
    ELSE IF c.r + 1 < a.runs THEN [r |-> c.r + 1, pos |-> 1, ci |-> 1]
    ELSE NoCell

\* a variant of the check that lets two policies through: len(policies) > 2
TooManyPoliciesOverTwo(policies) == Len(policies) > 2

\* the check of the loaded policies that raises ValueError
TooManyPolicies(policies) == Len(policies) > 1

\* policies[0] raises IndexError on an empty list
NoFirstPolicy(policies) == Len(policies) = 0

Event(ev, c) == [ev |-> ev, r |-> c.r, pos |-> c.pos, ci |-> c.ci]

\* a variant that logs the progress message after calling train()
CellEventsLogLast(c) == <<Event("train", c), Event("log", c)>>

\* what a cell that passed the check does, in order: logging.info, then train()
CellEvents(c) == <<Event("log", c), Event("train", c)>>

SetLast(s, field, value) ==
    [s EXCEPT ![Len(s)] = [s[Len(s)] EXCEPT ![field] = value]]

\* main(), mode 'compare': do_compare_training starts and enters the loops of
\* train_comparison_models
StartCompare ==
    /\ pc \in {"ready", "done", "error"}
    /\ invocation < MaxInvocations
    /\ args.mode = "compare"
    /\ invocation' = invocation + 1
    /\ calls' = <<>>
    /\ logs' = <<>>
    /\ trace' = <<>>
    /\ err' = ""
    /\ written' = 0
    /\ icalls' = <<>>
    /\ IF GridHasCells(args)
       THEN pc' = "cell" /\ cell' = FirstCell
       ELSE pc' = "count" /\ cell' = NoCell
    /\ UNCHANGED <<args, corpus, fs>>

\* a variant that reports a configuration with several policies and goes on
\* with the next cell
TrainCellSkipsInvalid ==
    /\ pc = "cell"
    /\ LET policy_config == args.config[cell.ci]
           i             == args.percentages[cell.pos]
           current_round == CurrentRound(args.percentages, i)
           policies      == ConfigLoad(policy_config)
           loaded        == Append(trace, Event("load", cell))
       IN  IF TooManyPolicies(policies)
           THEN /\ cell' = NextCell(args, cell)
                /\ pc' = IF cell' = NoCell THEN "count" ELSE "cell"
                /\ err' = "ValueError"
                /\ trace' = loaded
                /\ UNCHANGED <<calls, logs>>
           ELSE IF NoFirstPolicy(policies)
           THEN /\ pc' = "error"
                /\ err' = "IndexError"
                /\ trace' = loaded
                /\ UNCHANGED <<calls, logs, cell>>
           ELSE LET policy_name == policies[1]
                    output == OutputPath(args.out, cell.r, policy_name,
                                         current_round)
                IN  /\ pc' = "train"
                    /\ logs' = Append(logs,
                                 [policy_name |-> policy_name,
                                  current_round |-> current_round,
                                  rounds |-> Len(args.percentages),
                                  exclusion |-> i])
                    /\ calls' = Append(calls,
                                 [r |-> cell.r, pos |-> cell.pos, ci |-> cell.ci,
                                  domain |-> args.domain,
                                  stories |-> args.stories,
                                  output |-> output,
                                  policy_config |-> policy_config,
                                  exclusion_percentage |-> i,
                                  kwargs |-> args.kwargs,
                                  dump_stories |-> args.dump_stories,
                                  status |-> "running"])
                    /\ trace' = loaded \o CellEvents(cell)
                    /\ err' = err
                    /\ cell' = cell
    /\ UNCHANGED <<args, corpus, invocation, written, fs, icalls>>

\* one pass of the innermost loop body up to the await: load, check, name the
\* output directory, log, call train()
TrainCell ==
    /\ pc = "cell"
    /\ LET policy_config == args.config[cell.ci]
           i             == args.percentages[cell.pos]
           current_round == CurrentRound(args.percentages, i)
           policies      == ConfigLoad(policy_config)
           loaded        == Append(trace, Event("load", cell))
       IN  IF TooManyPolicies(policies)
           THEN /\ pc' = "error"
                /\ err' = "ValueError"
                /\ trace' = loaded
                /\ UNCHANGED <<calls, logs>>
           ELSE IF NoFirstPolicy(policies)
           THEN /\ pc' = "error"
                /\ err' = "IndexError"
                /\ trace' = loaded
                /\ UNCHANGED <<calls, logs>>
           ELSE LET policy_name == policies[1]
                    output == OutputPath(args.out, cell.r, policy_name,
                                         current_round)
                IN  /\ pc' = "train"
                    /\ logs' = Append(logs,
                                 [policy_name |-> policy_name,
                                  current_round |-> current_round,
                                  rounds |-> Len(args.percentages),
                                  exclusion |-> i])
                    /\ calls' = Append(calls,
                                 [r |-> cell.r, pos |-> cell.pos, ci |-> cell.ci,
                                  domain |-> args.domain,
                                  stories |-> args.stories,
                                  output |-> output,
                                  policy_config |-> policy_config,
                                  exclusion_percentage |-> i,
                                  kwargs |-> args.kwargs,
                                  dump_stories |-> args.dump_stories,
                                  status |-> "running"])
                    /\ trace' = loaded \o CellEvents(cell)
                    /\ err' = err
    /\ UNCHANGED <<args, corpus, invocation, cell, written, fs, icalls>>

\* train() returns: the loops move on, or train_comparison_models returns
TrainReturn ==
    /\ pc = "train"
    /\ calls' = SetLast(calls, "status", "returned")
    /\ trace' = Append(trace, Event("returned", cell))
    /\ cell' = NextCell(args, cell)
    /\ pc' = IF cell' = NoCell THEN "count" ELSE "cell"
    /\ UNCHANGED <<args, corpus, invocation, logs, err, written, fs, icalls>>

\* a variant that catches the exception and goes on with the next cell
TrainRaiseSkipsCell ==
    /\ pc = "train"
    /\ calls' = SetLast(calls, "status", "raised")
    /\ trace' = Append(trace, Event("raised", cell))
    /\ cell' = NextCell(args, cell)
    /\ pc' = IF cell' = NoCell THEN "count" ELSE "cell"
    /\ UNCHANGED <<args, corpus, invocation, logs, err, written, fs, icalls>>

\* a variant that catches the exception and leaves the loops
TrainRaiseEndsGrid ==
    /\ pc = "train"
    /\ calls' = SetLast(calls, "status", "raised")
    /\ trace' = Append(trace, Event("raised", cell))
    /\ pc' = "count"
    /\ UNCHANGED <<args, corpus, invocation, cell, logs, err, written, fs,
                   icalls>>

\* train() raises: nothing catches it, the process ends
TrainRaise ==
    /\ pc = "train"
    /\ calls' = SetLast(calls, "status", "raised")
    /\ trace' = Append(trace, Event("raised", cell))
    /\ pc' = "error"
    /\ err' = "TrainingError"
    /\ UNCHANGED <<args, corpus, invocation, cell, logs, written, fs, icalls>>

\* a variant in which the count of the stories is never followed by the dump
CountStoriesNeverDumps ==
    /\ pc = "count"
    /\ UNCHANGED vars

\* the rest of do_compare_training: count the stories, dump num_stories.json
CountStories ==
    /\ pc = "count"
    /\ LET no_stories  == corpus
           story_range == StoryRange(args.percentages, no_stories)
       IN  fs' = [exists |-> TRUE, content |-> story_range]
    /\ written' = written + 1
    /\ trace' = Append(trace, Event("dump", cell))
    /\ pc' = "done"
    /\ UNCHANGED <<args, corpus, invocation, cell, calls, logs, err, icalls>>

\* a variant that rejects either flag: `core or finetune`
DoInteractiveLearningEitherFlag ==
    /\ pc \in {"ready", "done", "error"}
    /\ invocation < MaxInvocations
    /\ args.mode = "interactive"
    /\ invocation' = invocation + 1
    /\ calls' = <<>>
    /\ logs' = <<>>
    /\ trace' = <<>>
    /\ written' = 0
    /\ cell' = NoCell
    /\ IF args.core \/ args.finetune
       THEN /\ pc' = "error"
            /\ err' = "ValueError"
            /\ icalls' = <<>>
       ELSE /\ pc' = "done"
            /\ err' = ""
            /\ icalls' = <<[finetune |-> args.finetune,
                            skip_visualization |-> args.skip_visualization]>>
    /\ UNCHANGED <<args, corpus, fs>>

\* main(), mode 'interactive': do_interactive_learning
DoInteractiveLearning ==
    /\ pc \in {"ready", "done", "error"}
    /\ invocation < MaxInvocations
    /\ args.mode = "interactive"
    /\ invocation' = invocation + 1
    /\ calls' = <<>>
    /\ logs' = <<>>
    /\ trace' = <<>>
    /\ written' = 0
    /\ cell' = NoCell
    /\ IF args.core /\ args.finetune
       THEN /\ pc' = "error"
            /\ err' = "ValueError"
            /\ icalls' = <<>>
       ELSE /\ pc' = "done"
            /\ err' = ""
            /\ icalls' = <<[finetune |-> args.finetune,
                            skip_visualization |-> args.skip_visualization]>>
    /\ UNCHANGED <<args, corpus, fs>>

Next ==
    \/ StartCompare
    \/ TrainCell
    \/ TrainReturn
    \/ TrainRaise
    \/ CountStories
    \/ DoInteractiveLearning

Spec == Init /\ [][Next]_vars

\* ------------------------------------------------------------- the story count alone
\* values of --percentages and story-file sizes for the count written at the end
CountPcts == {10, 50, 70}

CountPctLists == SeqsUpTo(CountPcts, MaxPcts) \cup {<<0, 25, 50>>}

CountCorpus == (0..MaxStories) \cup {45, 100}

CountArgs ==
    [mode : {"compare"}, out : {<<"o", "u", "t">>}, percentages : CountPctLists,
     config : {<<"memo.yml">>}, runs : {1},
     domain : {"domain.yml"}, stories : {"stories.md"},
     dump_stories : {FALSE}, kwargs : {NoKwargs},
     core : {FALSE}, finetune : {FALSE}, skip_visualization : {FALSE}]

InitCount ==
    /\ args \in CountArgs
    /\ corpus \in CountCorpus
    /\ Fresh

NextCount ==
    \/ StartCompare
    \/ TrainCell
    \/ TrainReturn
    \/ TrainRaise
    \/ CountStories

SpecCount == InitCount /\ [][NextCount]_vars

\* ------------------------------------------------------------- do_compare_training under a scheduler
\* command lines of `compare` for the runs to completion: every kind of
\* configuration, grids with and without cells
LivePctLists == {<<>>, <<10>>, <<10, 20>>}

LiveArgs ==
    [mode : {"compare"}, out : {<<>>},
     percentages : LivePctLists,
     config : SeqsUpTo(ConfigRefs, MaxConfigs), runs : RunCounts,
     domain : {"domain.yml"}, stories : {"stories.md"},
     dump_stories : {FALSE}, kwargs : {NoKwargs},
     core : {FALSE}, finetune : {FALSE}, skip_visualization : {FALSE}]

InitLive ==
    /\ args \in LiveArgs
    /\ corpus \in GridCorpus
    /\ Fresh

NextLive ==
    \/ StartCompare
    \/ TrainCell
    \/ TrainReturn
    \/ TrainRaise
    \/ CountStories

\* the event loop runs the coroutine while it can step (run_until_complete in
\* main), and every awaited call comes back, with a value or an exception
Scheduling ==
    /\ WF_vars(TrainCell)
    /\ WF_vars(TrainReturn \/ TrainRaise)
    /\ WF_vars(CountStories)

SpecLive == InitLive /\ [][NextLive]_vars /\ Scheduling

\* ------------------------------------------------------------- vocabulary of the properties
Compare == args.mode = "compare"

Rounds == Len(args.percentages)

Configs == Len(args.config)

\* every configuration of the command line holds exactly one policy
AllSinglePolicy ==
    \A k \in 1..Configs : Len(ConfigLoad(args.config[k])) = 1

\* the cells of the grid: run (from 0), position of the percentage, position
\* of the configuration
GridCells == [r : 0..(args.runs - 1), pos : 1..Rounds, ci : 1..Configs]

\* the place of a cell in the order run, percentage position, configuration
Ord(c) == (c.r * Rounds + (c.pos - 1)) * Configs + c.ci

CallsFor(c) ==
    {k \in 1..Len(calls) :
        calls[k].r = c.r /\ calls[k].pos = c.pos /\ calls[k].ci = c.ci}

\* the run index, round index and policy kind the code used for call k
RunIndex(k) == calls[k].r + 1

RoundIndex(k) == logs[k].current_round

PolicyKind(k) == logs[k].policy_name

\* C1: with runs >= 1 and one policy in every configuration, a grid in which
\* no train() call fails calls train() runs * |percentages| * |configs| times,
\* once for every (run, percentage position, configuration).
C1_TrainerCalledOncePerCell ==
    (Compare /\ pc \in {"count", "done"} /\ args.runs >= 1 /\ AllSinglePolicy)
        => /\ Len(calls) = args.runs * Rounds * Configs
           /\ \A c \in GridCells : Cardinality(CallsFor(c)) = 1

C1_Witness ==
    /\ Compare /\ pc = "count" /\ AllSinglePolicy
    /\ args.runs = 2 /\ args.percentages = <<10, 10>> /\ Configs = 2
    /\ Len(calls) = 8

\* C2: the round index of a cell, in its output path and its progress
\* message, is the position of the percentage being iterated, also when a
\* value occurs more than once in the list.
C2_RoundIndexIsPosition ==
    \A k \in 1..Len(calls) :
        /\ RoundIndex(k) = calls[k].pos
        /\ calls[k].output =
               OutputPath(args.out, calls[k].r, PolicyKind(k), calls[k].pos)

\* C3: two train() calls of one grid get the same output path if and only if
\* they agree on run index, round index and policy kind.
C3_PathsUniquePerRunRoundKind ==
    \A j, k \in 1..Len(calls) :
        (calls[j].output = calls[k].output)
            <=> /\ RunIndex(j) = RunIndex(k)
                /\ RoundIndex(j) = RoundIndex(k)
                /\ PolicyKind(j) = PolicyKind(k)

\* reading a path back: decimal digits and their value
IsDigit(ch) == \E d \in 1..10 : Digits[d] = ch

DigitOf(ch) == (CHOOSE d \in 1..10 : Digits[d] = ch) - 1

RECURSIVE DecimalValue(_)
DecimalValue(s) ==
    IF s = <<>> THEN 0
    ELSE 10 * DecimalValue(SubSeq(s, 1, Len(s) - 1)) + DigitOf(s[Len(s)])

\* s is n written in decimal with no sign, no padding and no leading zero
PlainDecimal(s, n) ==
    /\ Len(s) >= 1
    /\ \A k \in 1..Len(s) : IsDigit(s[k])
    /\ Len(s) > 1 => s[1] # "0"
    /\ DecimalValue(s) = n

\* path is root / "run_<run_index>" / "<name><round_index>"
HasPathShape(path, root, run_index, name, round_index) ==
    LET prefix == IF root = <<>> THEN <<>> ELSE root \o <<"/">>
        a      == Len(prefix)
    IN  \E la \in 1..Len(path) :
            LET lb == Len(path) - a - 4 - la - 1 - Len(name) IN
            /\ lb >= 1
            /\ SubSeq(path, 1, a) = prefix
            /\ SubSeq(path, a + 1, a + 4) = <<"r", "u", "n", "_">>
            /\ PlainDecimal(SubSeq(path, a + 5, a + 4 + la), run_index)
            /\ path[a + 5 + la] = "/"
            /\ SubSeq(path, a + 6 + la, a + 5 + la + Len(name)) = name
            /\ PlainDecimal(SubSeq(path, a + 6 + la + Len(name), Len(path)),
                            round_index)

Run2Memoization3 ==
    <<"o", "u", "t", "/", "r", "u", "n", "_", "2", "/",
      "M", "e", "m", "o", "i", "z", "a", "t", "i", "o", "n",
      "P", "o", "l", "i", "c", "y", "3">>

Run1Ensemble1 ==
    <<"r", "u", "n", "_", "1", "/", "E", "n", "s", "e", "m", "b", "l", "e", "1">>

Run1Ensemble2 ==
    <<"r", "u", "n", "_", "1", "/", "E", "n", "s", "e", "m", "b", "l", "e", "2">>

\* C4: the output path of every train() call is
\* output_root / "run_<run index>" / "<policy kind><round index>": the run
\* index is the repetition counter from 1 to runs, the kind is the class name
\* of the configuration's single policy, the round index is the one the code
\* tracks for the cell, and both are plain unpadded decimals; run 2, round 3
\* of MemoizationPolicy under out is out/run_2/MemoizationPolicy3, and
\* percentages [10, 20] with one Ensemble configuration and one run give
\* run_1/Ensemble1 then run_1/Ensemble2.
C4_OutputPathFormat ==
    /\ pc = "train" =>
          LET k    == Len(calls)
              name == ConfigLoad(calls[k].policy_config)[1]
          IN  /\ RunIndex(k) \in 1..args.runs
              /\ PolicyKind(k) = name
              /\ HasPathShape(calls[k].output, args.out, RunIndex(k), name,
                              RoundIndex(k))
              /\ (/\ args.out = <<"o", "u", "t">>
                  /\ RunIndex(k) = 2
                  /\ name = MemoizationPolicy
                  /\ RoundIndex(k) = 3) => calls[k].output = Run2Memoization3
    /\ (/\ pc \in {"count", "done"}
        /\ args.out = <<>>
        /\ args.percentages = <<10, 20>>
        /\ args.config = <<"ensemble.yml">>
        /\ args.runs = 1)
          => /\ Len(calls) = 2
             /\ calls[1].output = Run1Ensemble1
             /\ calls[2].output = Run1Ensemble2

C4_Witness ==
    /\ pc = "train"
    /\ args.out = <<"o", "u", "t">>
    /\ RunIndex(Len(calls)) = 2
    /\ PolicyKind(Len(calls)) = MemoizationPolicy
    /\ RoundIndex(Len(calls)) = 3
    /\ calls[Len(calls)].output = Run2Memoization3

\* C5: the check of the loaded configuration accepts exactly one policy and
\* rejects every other count, none as well as two or more, with the same
\* ValueError.
C5_OnlyOnePolicyAccepted ==
    (Compare /\ trace # <<>>) =>
        LET last     == trace[Len(trace)]
            policies == ConfigLoad(args.config[last.ci])
        IN  /\ last.ev = "load" =>
                  /\ Len(policies) # 1
                  /\ pc = "error"
                  /\ err = "ValueError"
            /\ last.ev = "train" => Len(policies) = 1

\* C6: when train() raises on a cell, every cell before it in the order run,
\* percentage position, configuration has been trained exactly once, the
\* failing cell once, no later cell at all, and the exception ends
\* train_comparison_models and do_compare_training.
C6_FailFastNoRetry ==
    \A k \in 1..Len(calls) :
        calls[k].status = "raised" =>
            /\ k = Len(calls)
            /\ pc = "error"
            /\ err = "TrainingError"
            /\ written = 0
            /\ \A j \in 1..k :
                  /\ [r |-> calls[j].r, pos |-> calls[j].pos, ci |-> calls[j].ci]
                         \in GridCells
                  /\ Ord(calls[j]) = j
            /\ \A j \in 1..(k - 1) : calls[j].status = "returned"

C6_Witness ==
    /\ Compare /\ pc = "error" /\ err = "TrainingError"
    /\ Rounds = 2 /\ Configs = 2
    /\ Len(calls) = 5
    /\ calls[5].status = "raised"
    /\ calls[5].r = 1 /\ calls[5].pos = 1 /\ calls[5].ci = 1

\* C7: an invocation of do_compare_training that completes has written
\* num_stories.json exactly once, and the file is written only after the
\* train() call of the last cell has returned: never while a cell of the grid
\* is untrained.
C7_WrittenOnceAfterLastCell ==
    /\ written <= 1
    /\ (Compare /\ pc = "done") => written = 1
    /\ written = 1 =>
          /\ pc = "done"
          /\ fs.exists
          /\ trace[Len(trace)].ev = "dump"
          /\ \A k \in 1..Len(calls) : calls[k].status = "returned"
          /\ \A c \in GridCells : CallsFor(c) # {}
          /\ GridCells # {} =>
                /\ trace[Len(trace) - 1].ev = "returned"
                /\ Ord(trace[Len(trace) - 1]) = Cardinality(GridCells)

C7_Witness ==
    /\ Compare /\ pc = "done" /\ written = 1
    /\ args.runs = 2 /\ Rounds = 2 /\ Configs = 2
    /\ Len(calls) = 8

\* C8: after an invocation that is aborted during training there is no
\* num_stories.json under the output root, not even one left by an earlier
\* invocation.
C8_NoFileAfterAbort ==
    (Compare /\ pc = "error") => ~fs.exists

\* C9 as stated: num_stories.json holds one integer per percentage, in input
\* order, each equal to round(n - (p/100)*n) with halves going to the even
\* integer.
C9_RoundedRemainingCount ==
    (Compare /\ pc = "done") =>
        /\ Len(fs.content) = Rounds
        /\ \A k \in 1..Rounds :
              fs.content[k] =
                  RoundHalfEven(100 * corpus - args.percentages[k] * corpus, 100)

\* C9 amended: num_stories.json holds one integer per percentage, in input
\* order, each equal to n - round((p/100.0)*n): the rounding applies to the
\* excluded count. Every entry is n minus an integer nearest to p*n/100; an
\* exact half goes to the even excluded count where p/100.0 is exact (n = 5,
\* p = 50 gives 3); n = 5, p = 10 gives 5; n = 45, p = 70, where the double
\* product lies just below 31.5, gives 14; n = 100 with [0, 25, 50] gives
\* [100, 75, 50].
C9_RemainingAfterRoundedExclusion ==
    (Compare /\ pc = "done") =>
        /\ Len(fs.content) = Rounds
        /\ \A k \in 1..Rounds :
              LET p        == args.percentages[k]
                  excluded == corpus - fs.content[k]
              IN  /\ 100 * excluded - p * corpus \in (0 - 50)..50
                  /\ (p \in {25, 50, 75} /\ (p * corpus) % 100 = 50)
                        => excluded % 2 = 0
                  /\ (corpus = 5 /\ p = 50) => fs.content[k] = 3
                  /\ (corpus = 5 /\ p = 10) => fs.content[k] = 5
                  /\ (corpus = 45 /\ p = 70) => fs.content[k] = 14
        /\ (corpus = 100 /\ args.percentages = <<0, 25, 50>>)
              => fs.content = <<100, 75, 50>>

C9_Witness ==
    /\ Compare /\ pc = "done"
    /\ corpus = 5
    /\ args.percentages = <<10, 50>>
    /\ fs.content = <<5, 3>>

\* C10: do_interactive_learning with both core and finetune set raises the
\* ValueError and never calls run_interactive_learning; with any other
\* combination it calls it exactly once, passing finetune and
\* skip_visualization through unchanged.
C10_InteractiveDispatch ==
    (args.mode = "interactive" /\ pc \in {"done", "error"}) =>
        IF args.core /\ args.finetune
        THEN /\ pc = "error"
             /\ err = "ValueError"
             /\ icalls = <<>>
        ELSE /\ pc = "done"
             /\ err = ""
             /\ icalls = <<[finetune |-> args.finetune,
                            skip_visualization |-> args.skip_visualization]>>

C10_Witness ==
    /\ args.mode = "interactive"
    /\ args.core /\ args.finetune
    /\ pc = "error" /\ err = "ValueError"
    /\ icalls = <<>>

\* some configuration of the command line holds two or more policies
SomeMultiPolicy ==
    \E k \in 1..Configs : Len(ConfigLoad(args.config[k])) > 1

\* C11: in a comparison whose configuration list holds a configuration with
\* several policies at any position, the ValueError is raised before train()
\* has been called for any cell: the invocation makes no train() call.
C11_NoTrainBeforeConfigError ==
    (Compare /\ SomeMultiPolicy) => calls = <<>>

\* C12: the train() calls of a grid are made one after the other in the order
\* run, percentage position, configuration position, runs outermost and
\* configurations innermost: the k-th call is for the k-th cell of that order,
\* at most one call is in progress, and a call begins only after the call
\* before it has returned.
C12_SequentialLexicographic ==
    /\ \A k \in 1..Len(calls) :
          /\ [r |-> calls[k].r, pos |-> calls[k].pos, ci |-> calls[k].ci]
                 \in GridCells
          /\ Ord(calls[k]) = k
          /\ calls[k].status = "running" => (k = Len(calls) /\ pc = "train")
          /\ k < Len(calls) => calls[k].status = "returned"
    /\ pc = "train" => calls[Len(calls)].status = "running"
    /\ \A t \in 1..Len(trace) :
          trace[t].ev = "train" =>
              \/ t = Len(trace) /\ pc = "train"
              \/ /\ t < Len(trace)
                 /\ trace[t + 1].ev \in {"returned", "raised"}
                 /\ Ord(trace[t + 1]) = Ord(trace[t])

C12_Witness ==
    /\ Compare /\ pc = "train"
    /\ args.runs = 2 /\ args.percentages = <<10, 20>> /\ Configs = 2
    /\ Len(calls) = 6
    /\ calls[6].r = 1 /\ calls[6].pos = 1 /\ calls[6].ci = 2
    /\ calls[6].status = "running"
    /\ calls[5].status = "returned"

\* the check of the loaded configuration fails in this step
ValidationFails ==
    /\ Compare
    /\ pc = "cell"
    /\ TooManyPolicies(ConfigLoad(args.config[cell.ci]))

\* C13: when the configuration loaded for a cell holds more than one policy,
\* the invocation ends there with the ValueError: train() is not called for
\* that cell nor for any later one, the calls of the earlier cells and what
\* they left stay as they are, and the invocation does not write
\* num_stories.json.
C13_ValidationAbortsGrid ==
    /\ [](ValidationFails => (err = "" /\ written = 0))
    /\ []((Compare /\ err = "ValueError") =>
            /\ pc = "error"
            /\ written = 0
            /\ trace[Len(trace)] = Event("load", cell)
            /\ TooManyPolicies(ConfigLoad(args.config[cell.ci]))
            /\ CallsFor(cell) = {}
            /\ Len(calls) = Ord(cell) - 1
            /\ \A k \in 1..Len(calls) :
                  calls[k].status = "returned" /\ Ord(calls[k]) < Ord(cell)
            /\ \A t \in 1..Len(trace) : trace[t].ev # "dump")
    /\ [][ValidationFails =>
            /\ pc' = "error"
            /\ err' = "ValueError"
            /\ calls' = calls
            /\ logs' = logs
            /\ fs' = fs
            /\ written' = written]_vars

C13_Witness ==
    /\ Compare /\ pc = "error" /\ err = "ValueError"
    /\ args.config = <<"memo.yml", "two.yml">>
    /\ args.runs = 2 /\ Rounds = 2
    /\ cell = [r |-> 0, pos |-> 1, ci |-> 2]
    /\ Len(calls) = 1
    /\ calls[1].status = "returned"
    /\ written = 0

\* C14: every train() call gets as exclusion_percentage the percentage being
\* iterated, and that value is the element of exclusion_percentages at the
\* round index written in the call's output path, also when a value occurs
\* more than once; domain, stories, dump_stories and kwargs are those of the
\* invocation in every call.
C14_ExclusionMatchesRound ==
    /\ \A k \in 1..Len(calls) :
          /\ calls[k].exclusion_percentage = args.percentages[calls[k].pos]
          /\ calls[k].exclusion_percentage = logs[k].exclusion
          /\ calls[k].domain = args.domain
          /\ calls[k].stories = args.stories
          /\ calls[k].dump_stories = args.dump_stories
          /\ calls[k].kwargs = args.kwargs
          /\ calls[k].policy_config = args.config[calls[k].ci]
    /\ pc = "train" =>
          LET k    == Len(calls)
              name == ConfigLoad(calls[k].policy_config)[1]
              read == {ri \in 1..Rounds :
                          HasPathShape(calls[k].output, args.out, RunIndex(k),
                                       name, ri)}
          IN  /\ read # {}
              /\ \A ri \in read :
                    args.percentages[ri] = calls[k].exclusion_percentage

C14_Witness ==
    /\ Compare /\ pc = "train"
    /\ args.percentages = <<10, 10>>
    /\ args.dump_stories
    /\ Len(calls) = 3
    /\ calls[3].pos = 2
    /\ calls[3].exclusion_percentage = 10
    /\ calls[3].dump_stories
    /\ calls[3].kwargs = AugmentationKwargs
    /\ HasPathShape(calls[3].output, args.out, 1, MemoizationPolicy, 1)

\* C15: in comparison mode train() is never called for a configuration that
\* does not hold exactly one policy: every call made is for a configuration
\* whose loaded policy list has length 1, and a cell whose configuration
\* holds no policy or several is loaded but never trained.
C15_TrainOnlySinglePolicy ==
    /\ \A k \in 1..Len(calls) :
          Len(ConfigLoad(calls[k].policy_config)) = 1
    /\ \A t \in 1..Len(trace) :
          /\ trace[t].ev = "train" =>
                Len(ConfigLoad(args.config[trace[t].ci])) = 1
          /\ (/\ trace[t].ev = "load"
              /\ Len(ConfigLoad(args.config[trace[t].ci])) # 1)
                => (t = Len(trace) /\ pc = "error")

C15_Witness ==
    /\ Compare /\ pc = "error" /\ err = "IndexError"
    /\ args.config = <<"memo.yml", "empty.yml">>
    /\ Len(calls) = 1
    /\ calls[1].policy_config = "memo.yml"
    /\ trace[Len(trace)] = [ev |-> "load", r |-> 0, pos |-> 1, ci |-> 2]

\* the positions of the trace holding event ev of the cell of event e
EventsOf(ev, e) ==
    {t \in 1..Len(trace) : trace[t] = [e EXCEPT !.ev = ev]}

IsLog(e) == e.ev = "log"

\* C16 as stated: the progress message of a cell is emitted after that
\* cell's train() call, once per cell.
C16_NotificationAfterTrain ==
    \A t \in 1..Len(trace) :
        trace[t].ev = "log" =>
            /\ Cardinality(EventsOf("log", trace[t])) = 1
            /\ \E u \in 1..(t - 1) : u \in EventsOf("train", trace[t])

\* C16 amended: for each cell the steps run in the order load configuration,
\* check, name the output path, emit the progress message, call train(): the
\* message comes directly before the cell's train() call, once for every cell
\* that is trained and never for a cell whose configuration is rejected; it
\* names the round index, the number of rounds, the policy and the percentage
\* of that call, and the call follows it whatever it says.
C16_NotificationBeforeTrain ==
    /\ Len(logs) = Len(calls)
    /\ SelectSeq(trace, IsLog) =
           [k \in 1..Len(calls) |-> Event("log", calls[k])]
    /\ \A k \in 1..Len(calls) :
          /\ Ord(calls[k]) = k
          /\ logs[k].policy_name = ConfigLoad(calls[k].policy_config)[1]
          /\ logs[k].current_round =
                 CurrentRound(args.percentages, calls[k].exclusion_percentage)
          /\ logs[k].rounds = Rounds
          /\ logs[k].exclusion = calls[k].exclusion_percentage
    /\ \A t \in 1..Len(trace) :
          /\ trace[t].ev = "log" =>
                /\ t > 1 /\ t < Len(trace)
                /\ trace[t - 1] = [trace[t] EXCEPT !.ev = "load"]
                /\ trace[t + 1] = [trace[t] EXCEPT !.ev = "train"]
          /\ trace[t].ev = "train" =>
                /\ t > 1
                /\ trace[t - 1] = [trace[t] EXCEPT !.ev = "log"]

C16_Witness ==
    /\ Compare /\ pc = "train"
    /\ args.percentages = <<10, 20>> /\ args.config = <<"memo.yml">>
    /\ Len(calls) = 2
    /\ logs[2] = [policy_name |-> MemoizationPolicy, current_round |-> 2,
                  rounds |-> 2, exclusion |-> 20]
    /\ trace[Len(trace) - 1] = [ev |-> "log", r |-> 0, pos |-> 2, ci |-> 1]
    /\ trace[Len(trace)] = [ev |-> "train", r |-> 0, pos |-> 2, ci |-> 1]

\* do_compare_training is running / has ended
Running == pc \in {"cell", "train", "count"}

Ended == pc \in {"done", "error"}

\* C17: when every call made on the way returns, each invocation of
\* do_compare_training on a finite grid ends, and it ends in one of two ways
\* only: num_stories.json written by this invocation and no error, or an
\* error raised and nothing written.
C17_CompareTerminates ==
    /\ \A n \in 1..MaxInvocations :
          (invocation = n /\ Running) ~> (invocation = n /\ Ended)
    /\ [](Ended =>
            \/ /\ pc = "done" /\ err = ""
               /\ written = 1 /\ fs.exists
               /\ trace[Len(trace)].ev = "dump"
            \/ /\ pc = "error"
               /\ err \in {"ValueError", "IndexError", "TrainingError"}
               /\ written = 0
               /\ trace[Len(trace)].ev \in {"load", "raised"})

C17_Witness ==
    /\ invocation = MaxInvocations
    /\ pc = "done" /\ written = 1 /\ fs.exists
    /\ args.runs = 2 /\ args.percentages = <<10, 20>> /\ Configs = 2
    /\ Len(calls) = 8
    /\ \A k \in 1..8 : calls[k].status = "returned"

\* a grid without cells: no run, no percentage or no configuration
Degenerate ==
    Compare /\ (args.runs <= 0 \/ Rounds = 0 \/ Configs = 0)

\* C18: with runs <= 0, or no configuration, or no percentage,
\* train_comparison_models calls neither train() nor the configuration
\* loader and raises nothing, and do_compare_training goes on to write
\* num_stories.json with one entry per percentage given: an empty list when
\* there is none.
C18_DegenerateGridStillWrites ==
    Degenerate =>
        /\ pc \in {"ready", "count", "done"}
        /\ err = ""
        /\ calls = <<>>
        /\ logs = <<>>
        /\ \A t \in 1..Len(trace) : trace[t].ev = "dump"
        /\ pc = "count" => trace = <<>>
        /\ pc = "done" =>
              /\ written = 1
              /\ fs.exists
              /\ Len(trace) = 1
              /\ Len(fs.content) = Rounds
              /\ Rounds = 0 => fs.content = <<>>
              /\ \A k \in 1..Rounds :
                    fs.content[k] = StoriesAt(args.percentages[k], corpus)

C18_Witness ==
    /\ Compare /\ pc = "done"
    /\ args.runs = 0
    /\ args.percentages = <<10, 20>>
    /\ args.config = <<"two.yml">>
    /\ calls = <<>>
    /\ written = 1
    /\ fs.content = <<5, 4>>

====
